---- MODULE Spec2Model ----
(***************************************************************************)
(* Model of the restaurant search API (src/app/api/restaurants/route.ts):  *)
(* the GET and POST handlers over the shared, module-level catalog.        *)
(*                                                                         *)
(* Conventions.  A JavaScript string is a sequence of one-character        *)
(* strings.  A JavaScript value is a record [t, n, s]: t is its type tag   *)
(* ("undefined", "null", "number", "nan", "inf", "ninf", "string"), n the  *)
(* value of a finite number, s the characters of a string.  Coordinates    *)
(* are whole degrees, distances whole kilometres, ratings are tenths       *)
(* (4.5 is 45).                                                            *)
(***************************************************************************)
EXTENDS Integers, Sequences, FiniteSets, TLC

VARIABLES catalog, pc, req, resp, calls, candidates, logged

\* Requests in flight side by side, the SearchForm component, the Home page.
VARIABLES server, form, page

vars == <<catalog, pc, req, resp, calls, candidates, logged, server, form, page>>

\* The state of one request handled on its own.
requestVars == <<pc, req, resp, calls, candidates, logged>>

(***************************************************************************)
(* JavaScript values                                                       *)
(***************************************************************************)
Undefined == [t |-> "undefined", n |-> 0, s |-> <<>>]
Null == [t |-> "null", n |-> 0, s |-> <<>>]
NaN == [t |-> "nan", n |-> 0, s |-> <<>>]
Infinity == [t |-> "inf", n |-> 0, s |-> <<>>]
NegInfinity == [t |-> "ninf", n |-> 0, s |-> <<>>]
Num(i) == [t |-> "number", n |-> i, s |-> <<>>]
Str(chars) == [t |-> "string", n |-> 0, s |-> chars]

\* ToBoolean: undefined, null, NaN, 0 and "" are falsy, everything else truthy.
Truthy(v) ==
    CASE v.t = "number" -> v.n # 0
      [] v.t \in {"inf", "ninf"} -> TRUE
      [] v.t = "string" -> v.s # <<>>
      [] OTHER -> FALSE

\* The global isNaN on a number.
IsNaN(v) == v.t = "nan"

IsFinite(v) == v.t = "number"

Digits == <<"0", "1", "2", "3", "4", "5", "6", "7", "8", "9">>

IsDigit(c) == \E i \in 1..10 : Digits[i] = c

DigitVal(c) == (CHOOSE i \in 1..10 : Digits[i] = c) - 1

IsSpace(c) == c = " "

Upper == <<"A", "B", "C", "D", "E", "F", "G", "H", "I", "J", "K", "L", "M",
           "N", "O", "P", "Q", "R", "S", "T", "U", "V", "W", "X", "Y", "Z">>

Lower == <<"a", "b", "c", "d", "e", "f", "g", "h", "i", "j", "k", "l", "m",
           "n", "o", "p", "q", "r", "s", "t", "u", "v", "w", "x", "y", "z">>

LowerChar(c) ==
    IF \E i \in 1..26 : Upper[i] = c
    THEN Lower[CHOOSE i \in 1..26 : Upper[i] = c]
    ELSE c

\* String.prototype.toLowerCase
ToLowerCase(s) == [i \in 1..Len(s) |-> LowerChar(s[i])]

RECURSIVE TrimStart(_)
TrimStart(s) ==
    IF s # <<>> /\ IsSpace(Head(s)) THEN TrimStart(Tail(s)) ELSE s

RECURSIVE TrimEnd(_)
TrimEnd(s) ==
    IF s # <<>> /\ IsSpace(s[Len(s)]) THEN TrimEnd(SubSeq(s, 1, Len(s) - 1)) ELSE s

\* String.prototype.trim
Trim(s) == TrimEnd(TrimStart(s))

\* String.prototype.includes
Includes(s, key) ==
    \E i \in 0..(Len(s) - Len(key)) : SubSeq(s, i + 1, i + Len(key)) = key

StartsWith(s, key) == Len(s) >= Len(key) /\ SubSeq(s, 1, Len(key)) = key

\* Length of the longest prefix of s made of decimal digits.
RECURSIVE DigitPrefixLen(_)
DigitPrefixLen(s) ==
    IF s # <<>> /\ IsDigit(Head(s)) THEN 1 + DigitPrefixLen(Tail(s)) ELSE 0

\* Value of a sequence of decimal digits.
RECURSIVE DigitsValue(_)
DigitsValue(s) ==
    IF s = <<>> THEN 0 ELSE 10 * DigitsValue(SubSeq(s, 1, Len(s) - 1)) + DigitVal(s[Len(s)])

InfinityChars == <<"I", "n", "f", "i", "n", "i", "t", "y">>

\* parseFloat on strings over digits, sign, letters and spaces: leading white
\* space is skipped, an optional sign read, then the longest prefix that is
\* "Infinity" or a run of digits; whatever follows is ignored; no such prefix
\* gives NaN.
ParseFloat(str) ==
    LET s0 == TrimStart(str)
        neg == s0 # <<>> /\ Head(s0) = "-"
        signed == s0 # <<>> /\ Head(s0) \in {"-", "+"}
        s1 == IF signed THEN Tail(s0) ELSE s0
        k == DigitPrefixLen(s1)
        mag == DigitsValue(SubSeq(s1, 1, k))
    IN  IF StartsWith(s1, InfinityChars) THEN (IF neg THEN NegInfinity ELSE Infinity)
        ELSE IF k = 0 THEN NaN
        ELSE Num(IF neg THEN 0 - mag ELSE mag)

(***************************************************************************)
(* @/utils/distance: calculateDistance, mockGeocode, DEFAULT_COORDINATES   *)
(***************************************************************************)
\* sin of 0, 0.5, ..., 90 degrees, times SinScale.
SinTable == <<
    0, 87, 175, 262, 349, 436, 523, 610, 698, 785, 872, 958,
    1045, 1132, 1219, 1305, 1392, 1478, 1564, 1650, 1736, 1822, 1908, 1994,
    2079, 2164, 2250, 2334, 2419, 2504, 2588, 2672, 2756, 2840, 2924, 3007,
    3090, 3173, 3256, 3338, 3420, 3502, 3584, 3665, 3746, 3827, 3907, 3987,
    4067, 4147, 4226, 4305, 4384, 4462, 4540, 4617, 4695, 4772, 4848, 4924,
    5000, 5075, 5150, 5225, 5299, 5373, 5446, 5519, 5592, 5664, 5736, 5807,
    5878, 5948, 6018, 6088, 6157, 6225, 6293, 6361, 6428, 6494, 6561, 6626,
    6691, 6756, 6820, 6884, 6947, 7009, 7071, 7133, 7193, 7254, 7314, 7373,
    7431, 7490, 7547, 7604, 7660, 7716, 7771, 7826, 7880, 7934, 7986, 8039,
    8090, 8141, 8192, 8241, 8290, 8339, 8387, 8434, 8480, 8526, 8572, 8616,
    8660, 8704, 8746, 8788, 8829, 8870, 8910, 8949, 8988, 9026, 9063, 9100,
    9135, 9171, 9205, 9239, 9272, 9304, 9336, 9367, 9397, 9426, 9455, 9483,
    9511, 9537, 9563, 9588, 9613, 9636, 9659, 9681, 9703, 9724, 9744, 9763,
    9781, 9799, 9816, 9833, 9848, 9863, 9877, 9890, 9903, 9914, 9925, 9936,
    9945, 9954, 9962, 9969, 9976, 9981, 9986, 9990, 9994, 9997, 9998, 10000,
    10000 >>

SinScale == 10000

\* Metres of great circle per degree of central angle: 6371 km * pi / 180.
MetresPerDegree == 111195

\* sin of h half-degrees (any integer h), times SinScale.
SinH(h) ==
    LET m == h % 720
    IN  IF m <= 180 THEN SinTable[m + 1]
        ELSE IF m <= 360 THEN SinTable[360 - m + 1]
        ELSE IF m <= 540 THEN 0 - SinTable[m - 360 + 1]
        ELSE 0 - SinTable[720 - m + 1]

\* cos of d whole degrees, times SinScale.
CosD(d) == SinH(2 * d + 180)

\* The haversine term a = sin^2(dLat/2) + cos(lat1) cos(lat2) sin^2(dLon/2),
\* times SinScale^2, clamped to [0, 1] before the inverse sine.
HaversineA(lat1, lon1, lat2, lon2) ==
    LET sLat == SinH(lat2 - lat1)
        sLon == SinH(lon2 - lon1)
        cc == (CosD(lat1) * CosD(lat2)) \div SinScale
        a == sLat * sLat + ((cc * sLon) \div SinScale) * sLon
    IN  IF a < 0 THEN 0
        ELSE IF a > SinScale * SinScale THEN SinScale * SinScale
        ELSE a

\* Least k in lo..hi with sin^2(k/2 degrees) >= a; 2 asin(sqrt(a)) is k degrees.
RECURSIVE CentralAngle(_, _, _)
CentralAngle(a, lo, hi) ==
    IF lo >= hi THEN lo
    ELSE LET mid == (lo + hi) \div 2
         IN  IF SinTable[mid + 1] * SinTable[mid + 1] >= a
             THEN CentralAngle(a, lo, mid)
             ELSE CentralAngle(a, mid + 1, hi)

\* calculateDistance(lat1, lon1, lat2, lon2): haversine distance in km on a
\* sphere of radius 6371 km.  The arithmetic on a non-finite argument yields
\* NaN (sin and cos of an infinity are NaN, and NaN propagates).
calculateDistance(lat1, lon1, lat2, lon2) ==
    IF ~(IsFinite(lat1) /\ IsFinite(lon1) /\ IsFinite(lat2) /\ IsFinite(lon2))
    THEN NaN
    ELSE Num((CentralAngle(HaversineA(lat1.n, lon1.n, lat2.n, lon2.n), 0, 180)
              * MetresPerDegree) \div 1000)

\* The default coordinate: the centre of San Francisco.
DEFAULT_COORDINATES == [latitude |-> Num(38), longitude |-> Num(0 - 122)]

\* The fixed table of known places, in lookup order.
KnownPlaces == <<
    [name |-> <<"s", "f">>, latitude |-> Num(38), longitude |-> Num(0 - 122)],
    [name |-> <<"o", "a", "k">>, latitude |-> Num(38), longitude |-> Num(0 - 121)],
    [name |-> <<"n", "y">>, latitude |-> Num(41), longitude |-> Num(0 - 74)] >>

NoCoords == [found |-> FALSE, latitude |-> Undefined, longitude |-> Undefined]

\* mockGeocode(address): the address is trimmed and lower-cased, and the first
\* known place whose name it contains gives the coordinate; null when none does.
mockGeocode(address) ==
    LET q == ToLowerCase(Trim(address))
        hits == {i \in 1..Len(KnownPlaces) : Includes(q, KnownPlaces[i].name)}
    IN  IF hits = {} THEN NoCoords
        ELSE LET first == CHOOSE i \in hits : \A j \in hits : i <= j
             IN  [found |-> TRUE,
                  latitude |-> KnownPlaces[first].latitude,
                  longitude |-> KnownPlaces[first].longitude]

(***************************************************************************)
(* The catalog: restaurantData.restaurants, loaded once with the module    *)
(***************************************************************************)
Restaurant(id, cuisine, rating, priceRange, lat, lng) ==
    [id |-> id, cuisine |-> cuisine, rating |-> Num(rating),
     priceRange |-> Str(priceRange), latitude |-> Num(lat), longitude |-> Num(lng)]

\* Entries of the data file (the fields the handlers read), in file order.
AllRestaurants == <<
    Restaurant(1, <<"I", "t", "a", "l", "i", "a", "n">>, 45, <<"$", "$", "$", "$">>, 34, 0 - 118),
    Restaurant(2, <<"J", "a", "p", "a", "n", "e", "s", "e">>, 48, <<"$", "$", "$">>, 38, 0 - 121),
    Restaurant(3, <<"J", "a", "p", "a", "n", "e", "s", "e">>, 30, <<"$", "$">>, 41, 0 - 74),
    Restaurant(4, <<"I", "t", "a", "l", "i", "a", "n">>, 45, <<"$", "$">>, 38, 0 - 122),
    Restaurant(5, <<"T", "h", "a", "i">>, 39, <<"$">>, 39, 0 - 122),
    Restaurant(6, <<"T", "h", "a", "i">>, 50, <<"$", "$">>, 40, 0 - 120),
    Restaurant(7, <<"M", "e", "x", "i", "c", "a", "n">>, 42, <<"$">>, 37, 0 - 122),
    Restaurant(8, <<"I", "t", "a", "l", "i", "a", "n">>, 47, <<"$", "$", "$">>, 38, 0 - 123) >>

\* Largest catalog checked: the first n entries of the data, n in 0..MaxCatalog.
MaxCatalog == 6

\* Number of restaurants to return
RESULTS_LIMIT == 5

(***************************************************************************)
(* Arrays: map, sort, slice, filter                                        *)
(***************************************************************************)
\* { ...restaurant, distance }
WithDistance(r, d) ==
    [id |-> r.id, cuisine |-> r.cuisine, rating |-> r.rating,
     priceRange |-> r.priceRange, latitude |-> r.latitude,
     longitude |-> r.longitude, distance |-> d]

\* a - b on numbers: NaN when either operand is NaN.
Minus(a, b) == IF IsFinite(a) /\ IsFinite(b) THEN Num(a.n - b.n) ELSE NaN

\* The comparator (a, b) => a.distance - b.distance as Array.prototype.sort
\* reads it: a NaN result counts as +0.
SortCompare(a, b) ==
    LET v == Minus(a.distance, b.distance)
    IN  IF IsNaN(v) THEN 0 ELSE v.n

\* x inserted in front of the elements it ties with: a sort that is not stable.
RECURSIVE InsertSortedUnstable(_, _)
InsertSortedUnstable(arr, x) ==
    IF arr # <<>> /\ SortCompare(arr[Len(arr)], x) >= 0
    THEN Append(InsertSortedUnstable(SubSeq(arr, 1, Len(arr) - 1), x), arr[Len(arr)])
    ELSE Append(arr, x)

\* x inserted into the sorted array arr behind every element that does not
\* compare greater than it.
RECURSIVE InsertSorted(_, _)
InsertSorted(arr, x) ==
    IF arr # <<>> /\ SortCompare(arr[Len(arr)], x) > 0
    THEN Append(InsertSorted(SubSeq(arr, 1, Len(arr) - 1), x), arr[Len(arr)])
    ELSE Append(arr, x)

\* Array.prototype.sort with that comparator: a stable sort.
RECURSIVE JsSort(_)
JsSort(arr) ==
    IF arr = <<>> THEN <<>>
    ELSE InsertSorted(JsSort(SubSeq(arr, 1, Len(arr) - 1)), arr[Len(arr)])

\* slice(0, n + 1): the cap taken one too far.
SliceOneMore(arr, n) == SubSeq(arr, 1, IF Len(arr) < n + 1 THEN Len(arr) ELSE n + 1)

\* Array.prototype.slice(0, n)
Slice(arr, n) == SubSeq(arr, 1, IF Len(arr) < n THEN Len(arr) ELSE n)

\* The arrays a handler works on: "data" is restaurantData.restaurants itself,
\* "filtered" the array a filter() call returns, "mapped" the array map() returns.
NewHeap(data) == [data |-> data, filtered |-> <<>>, mapped |-> <<>>]

\* The distances written into the array that was read, with no copy made.
MapResultRefInPlace == "data"

\* The array that receives the result of restaurants.map(...): a new one.
MapResultRef == "mapped"

\* The map with the user's latitude and longitude handed over in swapped places.
MapDistancesSwapped(heap, ref, lat, lng) ==
    [heap EXCEPT ![MapResultRef] =
        [i \in 1..Len(heap[ref]) |->
            WithDistance(heap[ref][i],
                calculateDistance(lng, lat, heap[ref][i].latitude, heap[ref][i].longitude))]]

\* restaurants.map(r => ({ ...r, distance: calculateDistance(lat, lng, r.latitude, r.longitude) }))
MapDistances(heap, ref, lat, lng) ==
    [heap EXCEPT ![MapResultRef] =
        [i \in 1..Len(heap[ref]) |->
            WithDistance(heap[ref][i],
                calculateDistance(lat, lng, heap[ref][i].latitude, heap[ref][i].longitude))]]

\* .sort(...) reorders in place the array map() returned.
SortInPlace(heap) == [heap EXCEPT ![MapResultRef] = JsSort(heap[MapResultRef])]

(***************************************************************************)
(* Responses                                                               *)
(***************************************************************************)
NoLocation ==
    [present |-> FALSE, latitude |-> Undefined, longitude |-> Undefined,
     address |-> Undefined]

NoResponse ==
    [status |-> 0, error |-> "", restaurants |-> <<>>, searchLocation |-> NoLocation]

\* NextResponse.json({ error }, { status })
JsonError(message, status) ==
    [status |-> status, error |-> message, restaurants |-> <<>>,
     searchLocation |-> NoLocation]

\* NextResponse.json({ restaurants, searchLocation })
JsonResults(restaurants, searchLocation) ==
    [status |-> 200, error |-> "", restaurants |-> restaurants,
     searchLocation |-> searchLocation]

\* A catch block that answers with the text of the error it caught.
InternalErrorLeaky(err) == JsonError(err, 500)

\* The catch block: the error is logged and a fixed body answered.
InternalError(err) == JsonError("Internal server error", 500)

DefaultLabel == Str(<<"D","e","f","a","u","l","t"," ","l","o","c","a","t","i","o","n"," ","(","S","a","n"," ","F","r","a","n","c","i","s","c","o",")">>)

\* The id of every element of an array, in order.
Ids(arr) == [i \in 1..Len(arr) |-> arr[i].id]

\* What a handler leaves behind: the response, the catalog, the ids of the
\* array handed to map() and sort() (one calculateDistance call each), and the
\* error console.error was given ("" if none).
Outcome(response, data, sorted, err) ==
    [resp |-> response, data |-> data, calls |-> Len(sorted),
     candidates |-> Ids(sorted), logged |-> err]

(***************************************************************************)
(* GET                                                                     *)
(***************************************************************************)
\* A finite number stands in a coordinate slot that is never read.
Unset == Num(0)

\* Lines 19-46: which branch determines the user coordinates.
GetBranch(q) ==
    IF Truthy(q.lat) /\ Truthy(q.lng)
    THEN IF IsNaN(ParseFloat(q.lat.s)) \/ IsNaN(ParseFloat(q.lng.s))
         THEN "invalid" ELSE "explicit"
    ELSE IF Truthy(q.address)
    THEN IF mockGeocode(q.address.s).found THEN "geocoded" ELSE "fallback"
    ELSE "default"

\* UserLat with the fallback of lines 38-40 left out: an address that
\* matches no place leaves the latitude at zero.
UserLatNoFallback(q) ==
    CASE GetBranch(q) = "explicit" -> ParseFloat(q.lat.s)
      [] GetBranch(q) = "geocoded" -> mockGeocode(q.address.s).latitude
      [] GetBranch(q) = "default" -> DEFAULT_COORDINATES.latitude
      [] OTHER -> Unset

UserLat(q) ==
    CASE GetBranch(q) = "explicit" -> ParseFloat(q.lat.s)
      [] GetBranch(q) = "geocoded" -> mockGeocode(q.address.s).latitude
      [] GetBranch(q) \in {"fallback", "default"} -> DEFAULT_COORDINATES.latitude
      [] OTHER -> Unset

UserLng(q) ==
    CASE GetBranch(q) = "explicit" -> ParseFloat(q.lng.s)
      [] GetBranch(q) = "geocoded" -> mockGeocode(q.address.s).longitude
      [] GetBranch(q) \in {"fallback", "default"} -> DEFAULT_COORDINATES.longitude
      [] OTHER -> Unset

\* address || 'Default location (San Francisco)'
GetLabel(q) == IF Truthy(q.address) THEN q.address ELSE DefaultLabel

GETHandler(data, q) ==
    IF GetBranch(q) = "invalid"
    THEN Outcome(JsonError("Invalid coordinates provided", 400), data, <<>>, "")
    ELSE LET h0 == NewHeap(data)
             h1 == MapDistances(h0, "data", UserLat(q), UserLng(q))
             h2 == SortInPlace(h1)
             sortedRestaurants == Slice(h2[MapResultRef], RESULTS_LIMIT)
         IN  Outcome(
                 JsonResults(sortedRestaurants,
                     [present |-> TRUE, latitude |-> UserLat(q),
                      longitude |-> UserLng(q), address |-> GetLabel(q)]),
                 h2.data, h0.data, "")

(***************************************************************************)
(* POST                                                                    *)
(***************************************************************************)
\* a >= b on numbers
Gte(a, b) ==
    CASE IsFinite(a) /\ IsFinite(b) -> a.n >= b.n
      [] a.t = "nan" \/ b.t = "nan" -> FALSE
      [] OTHER -> a.t = "inf" \/ b.t = "ninf" \/ a.t = b.t

\* a === b
StrictEquals(a, b) == a.t # "nan" /\ a = b

\* if (filters.cuisine) restaurants = restaurants.filter(...)
CuisineApplies(filters) == filters.present /\ Truthy(filters.cuisine)

\* filters.cuisine.toLowerCase() is a TypeError unless filters.cuisine is a
\* string; the callback runs, and throws, only if the array has an element.
CuisineThrows(arr, filters) ==
    CuisineApplies(filters) /\ filters.cuisine.t # "string" /\ arr # <<>>

CuisineMatches(r, filters) == ToLowerCase(r.cuisine) = ToLowerCase(filters.cuisine.s)

\* if (filters.minRating) restaurants = restaurants.filter(...)
MinRatingApplies(filters) == filters.present /\ Truthy(filters.minRating)

\* r.rating > filters.minRating: the bound taken as exclusive.
MinRatingMatchesStrict(r, filters) ==
    Gte(r.rating, filters.minRating) /\ r.rating # filters.minRating

MinRatingMatches(r, filters) == Gte(r.rating, filters.minRating)

\* if (filters.priceRange) restaurants = restaurants.filter(...)
PriceRangeApplies(filters) == filters.present /\ Truthy(filters.priceRange)

PriceRangeMatches(r, filters) == StrictEquals(r.priceRange, filters.priceRange)

\* Lines 96-111: restaurants starts as the catalog array itself and is
\* replaced by a new array by each filter that applies.  The result is the heap
\* and the array restaurants ends up naming.
ApplyFilters(heap, filters) ==
    LET a0 == heap.data
        a1 == IF CuisineApplies(filters)
              THEN SelectSeq(a0, LAMBDA r : CuisineMatches(r, filters)) ELSE a0
        a2 == IF MinRatingApplies(filters)
              THEN SelectSeq(a1, LAMBDA r : MinRatingMatches(r, filters)) ELSE a1
        a3 == IF PriceRangeApplies(filters)
              THEN SelectSeq(a2, LAMBDA r : PriceRangeMatches(r, filters)) ELSE a2
        filtered == CuisineApplies(filters) \/ MinRatingApplies(filters)
                        \/ PriceRangeApplies(filters)
    IN  [heap |-> IF filtered THEN [heap EXCEPT !.filtered = a3] ELSE heap,
         ref |-> IF filtered THEN "filtered" ELSE "data"]

\* if (!latitude || !longitude)
CoordinatesMissing(body) == ~Truthy(body.latitude) \/ ~Truthy(body.longitude)

POSTHandler(data, body) ==
    IF body.kind = "unparsable"
    THEN Outcome(InternalError("SyntaxError"), data, <<>>, "SyntaxError")
    ELSE IF body.kind = "null"
    THEN Outcome(InternalError("TypeError"), data, <<>>, "TypeError")
    ELSE IF CoordinatesMissing(body)
    THEN Outcome(JsonError("Latitude and longitude are required", 400), data, <<>>, "")
    ELSE IF CuisineThrows(data, body.filters)
    THEN Outcome(InternalError("TypeError"), data, <<>>, "TypeError")
    ELSE LET f == ApplyFilters(NewHeap(data), body.filters)
             h1 == MapDistances(f.heap, f.ref, body.latitude, body.longitude)
             h2 == SortInPlace(h1)
             sortedRestaurants == Slice(h2[MapResultRef], RESULTS_LIMIT)
         IN  Outcome(JsonResults(sortedRestaurants, NoLocation),
                     h2.data, f.heap[f.ref], "")

(***************************************************************************)
(* Requests                                                                *)
(***************************************************************************)
NoQuery == [address |-> Null, lat |-> Null, lng |-> Null]

NoFilters ==
    [present |-> FALSE, cuisine |-> Undefined, minRating |-> Undefined,
     priceRange |-> Undefined]

NoBody ==
    [kind |-> "none", latitude |-> Undefined, longitude |-> Undefined,
     filters |-> NoFilters]

NoRequest == [method |-> "none", query |-> NoQuery, body |-> NoBody]

\* searchParams.get gives null for a parameter that is absent, else its string.
AddressParams ==
    {Null, Str(<<>>), Str(<<"s", "f">>), Str(<<" ", "S", "F", " ", "b", "a", "y", " ">>), Str(<<"x", "y", "z">>), Str(<<"O", "a", "k">>)}

LatParams ==
    {Null, Str(<<>>), Str(<<"0">>), Str(<<"3", "8">>), Str(<<"9", "1">>),
     Str(<<"a", "b", "c">>), Str(<<"3", "8", "a">>), Str(InfinityChars)}

LngParams ==
    {Null, Str(<<>>), Str(<<"0">>), Str(<<"-", "1", "2", "2">>),
     Str(<<"1", "8", "1">>), Str(<<"a", "b", "c">>)}

GetQueries == [address : AddressParams, lat : LatParams, lng : LngParams]

\* Coordinates of a JSON body: absent, or a JSON number (1e999 reads as Infinity).
BodyLatitudes == {Undefined, Num(0), Num(38), Num(91), Infinity}

BodyLongitudes == {Undefined, Num(0), Num(0 - 122), Num(181)}

FilterObjects ==
    [present : {TRUE},
     cuisine : {Undefined, Str(<<>>), Str(<<"i", "t", "a", "l", "i", "a", "n">>), Str(<<"T", "H", "A", "I">>), Num(5)},
     minRating : {Undefined, Num(0), Num(45), Num(50)},
     priceRange : {Undefined, Str(<<>>), Str(<<"$", "$">>)}]

PostBodies ==
    [kind : {"object"}, latitude : BodyLatitudes, longitude : BodyLongitudes,
     filters : {NoFilters} \cup FilterObjects]
    \cup {[NoBody EXCEPT !.kind = "unparsable"], [NoBody EXCEPT !.kind = "null"]}

(***************************************************************************)
(* The state machine                                                       *)
(***************************************************************************)
\* Nothing is in flight side by side, no component is mounted.
Unused == [used |-> FALSE]

Init ==
    /\ catalog \in {SubSeq(AllRestaurants, 1, n) : n \in 0..MaxCatalog}
    /\ server = Unused /\ form = Unused /\ page = Unused
    /\ pc = "idle"
    /\ req = NoRequest
    /\ resp = NoResponse
    /\ calls = 0
    /\ candidates = <<>>
    /\ logged = ""

\* Outcome o of a handler becomes the state.
Finish(o) ==
    /\ resp' = o.resp
    /\ catalog' = o.data
    /\ calls' = o.calls
    /\ candidates' = o.candidates
    /\ logged' = o.logged
    /\ pc' = "responded"
    /\ UNCHANGED <<server, form, page>>

\* GET runs from the request to the response without awaiting anything.
Get(q) ==
    /\ pc = "idle"
    /\ req' = [method |-> "GET", query |-> q, body |-> NoBody]
    /\ Finish(GETHandler(catalog, q))

\* POST up to await request.json()
PostReceive(b) ==
    /\ pc = "idle"
    /\ req' = [method |-> "POST", query |-> NoQuery, body |-> b]
    /\ resp' = NoResponse
    /\ calls' = 0
    /\ candidates' = <<>>
    /\ logged' = ""
    /\ pc' = "await_json"
    /\ UNCHANGED <<catalog, server, form, page>>

\* POST from the settling of request.json() to the response
PostResume ==
    /\ pc = "await_json"
    /\ Finish(POSTHandler(catalog, req.body))
    /\ UNCHANGED req

\* The response has been sent: the request and everything local to it is gone.
Complete ==
    /\ pc = "responded"
    /\ pc' = "idle"
    /\ req' = NoRequest
    /\ resp' = NoResponse
    /\ calls' = 0
    /\ candidates' = <<>>
    /\ logged' = ""
    /\ UNCHANGED <<catalog, server, form, page>>

Next ==
    \/ \E q \in GetQueries : Get(q)
    \/ \E b \in PostBodies : PostReceive(b)
    \/ PostResume
    \/ Complete

Spec == Init /\ [][Next]_vars

(***************************************************************************)
(* Properties                                                              *)
(***************************************************************************)
Answered == pc = "responded"

AnsweredGet == Answered /\ req.method = "GET"

AnsweredPost == Answered /\ req.method = "POST"

\* A query parameter that is there and not empty.
Supplied(p) == p.t = "string" /\ p.s # <<>>

LatitudeOutOfRange(v) ==
    v.t \in {"inf", "ninf"} \/ (v.t = "number" /\ (v.n < 0 - 90 \/ v.n > 90))

LongitudeOutOfRange(v) ==
    v.t \in {"inf", "ninf"} \/ (v.t = "number" /\ (v.n < 0 - 180 \/ v.n > 180))

\* The request carries both coordinates and one of them is out of range.
SuppliesOutOfRange ==
    \/ /\ req.method = "GET"
       /\ Supplied(req.query.lat) /\ Supplied(req.query.lng)
       /\ \/ LatitudeOutOfRange(ParseFloat(req.query.lat.s))
          \/ LongitudeOutOfRange(ParseFloat(req.query.lng.s))
    \/ /\ req.method = "POST"
       /\ req.body.kind = "object"
       /\ req.body.latitude # Undefined /\ req.body.longitude # Undefined
       /\ \/ LatitudeOutOfRange(req.body.latitude)
          \/ LongitudeOutOfRange(req.body.longitude)

\* C1: a request that supplies a latitude outside [-90, 90] or a longitude
\* outside [-180, 180] is answered 400 with an error body, and no distance is
\* computed for it.
C1_OutOfRangeRejected ==
    (Answered /\ SuppliesOutOfRange)
        => (resp.status = 400 /\ resp.error # "" /\ calls = 0)

\* A GET whose coordinate is the default one, substituted for want of a place.
FellBack(q) == GetBranch(q) \in {"fallback", "default"}

\* A GET whose coordinate came from lat/lng or from a matched place name.
Resolved(q) == GetBranch(q) \in {"explicit", "geocoded"}

\* C2: the searchLocation label of a GET answered from the substituted default
\* coordinate differs from the label of every GET whose coordinate was resolved
\* from explicit lat/lng or from a matched place name.
C2_FallbackLabelDistinct ==
    (AnsweredGet /\ resp.status = 200 /\ FellBack(req.query))
        => \A q2 \in GetQueries :
              Resolved(q2)
                  => GETHandler(catalog, q2).resp.searchLocation.address
                         # resp.searchLocation.address

\* a <= b on numbers: false when either is NaN.
Lte(a, b) == IsFinite(a) /\ IsFinite(b) /\ a.n <= b.n

Lt(a, b) == IsFinite(a) /\ IsFinite(b) /\ a.n < b.n

\* The catalog entry an element of a response was made from.
Entry(x) ==
    [id |-> x.id, cuisine |-> x.cuisine, rating |-> x.rating,
     priceRange |-> x.priceRange, latitude |-> x.latitude, longitude |-> x.longitude]

Distance(lat, lng, r) == calculateDistance(lat, lng, r.latitude, r.longitude)

\* list holds entries of pool, each once and with its distance from (lat, lng),
\* in non-decreasing order of distance, as many as the cap and the pool allow,
\* and none of the entries of pool left out is strictly nearer than one in it.
RankedFrom(list, pool, lat, lng) ==
    /\ Len(list) = (IF Len(pool) < RESULTS_LIMIT THEN Len(pool) ELSE RESULTS_LIMIT)
    /\ \A i \in 1..Len(list) :
          /\ \E k \in 1..Len(pool) : pool[k] = Entry(list[i])
          /\ list[i].distance = Distance(lat, lng, Entry(list[i]))
    /\ \A i, j \in 1..Len(list) : i < j =>
          /\ list[i].id # list[j].id
          /\ Lte(list[i].distance, list[j].distance)
    /\ \A k \in 1..Len(pool) :
          (\A i \in 1..Len(list) : list[i].id # pool[k].id)
              => \A i \in 1..Len(list) :
                    ~Lt(Distance(lat, lng, pool[k]), list[i].distance)

\* No lat/lng pair, and no address or an address that matches no known place.
Unresolvable(q) ==
    /\ ~(Supplied(q.lat) /\ Supplied(q.lng))
    /\ (Supplied(q.address) => ~mockGeocode(q.address.s).found)

\* C3: a GET with no lat/lng pair and no address, or an address that matches no
\* known place, is answered 200 with the default coordinate as searchLocation
\* and the catalog ranked from that coordinate.
C3_UnresolvedGetsDefault ==
    (AnsweredGet /\ Unresolvable(req.query))
        => /\ resp.status = 200
           /\ resp.error = ""
           /\ resp.searchLocation.present
           /\ resp.searchLocation.latitude = DEFAULT_COORDINATES.latitude
           /\ resp.searchLocation.longitude = DEFAULT_COORDINATES.longitude
           /\ RankedFrom(resp.restaurants, catalog,
                         DEFAULT_COORDINATES.latitude, DEFAULT_COORDINATES.longitude)

\* An address that matches no place was searched in a catalog larger than the cap.
C3_Witness ==
    /\ AnsweredGet
    /\ req.query.lat = Null /\ req.query.lng = Null
    /\ req.query.address = Str(<<"x", "y", "z">>)
    /\ Len(catalog) > RESULTS_LIMIT
    /\ resp.status = 200
    /\ Len(resp.restaurants) = RESULTS_LIMIT
    /\ resp.restaurants[1].distance = Num(0)

\* A sub-filter that is there, whatever its value.
Given(v) == v # Undefined

\* A sub-filter that is there with a value other than null, "", 0 and NaN.
Effective(v) == Given(v) /\ v # Null /\ v # Str(<<>>) /\ v # Num(0) /\ v # NaN

\* cuisine equal ignoring case, rating >= minRating, priceRange equal
SatisfiesCuisine(r, c) == c.t = "string" /\ ToLowerCase(r.cuisine) = ToLowerCase(c.s)

SatisfiesMinRating(r, m) == Gte(r.rating, m)

SatisfiesPriceRange(r, p) == r.priceRange = p

\* r satisfies the sub-filters of f selected by c, m and p.
SatisfiesSelected(r, f, c, m, p) ==
    f.present =>
        /\ c => SatisfiesCuisine(r, f.cuisine)
        /\ m => SatisfiesMinRating(r, f.minRating)
        /\ p => SatisfiesPriceRange(r, f.priceRange)

\* r satisfies every sub-filter that is present in f.
SatisfiesGiven(r, f) ==
    SatisfiesSelected(r, f, Given(f.cuisine), Given(f.minRating), Given(f.priceRange))

\* r satisfies every sub-filter of f that has such a value.
SatisfiesEffective(r, f) ==
    SatisfiesSelected(r, f, Effective(f.cuisine), Effective(f.minRating),
                      Effective(f.priceRange))

\* The ids of the catalog entries that satisfy f, in catalog order.
PassingGiven(f) == Ids(SelectSeq(catalog, LAMBDA r : SatisfiesGiven(r, f)))

PassingEffective(f) == Ids(SelectSeq(catalog, LAMBDA r : SatisfiesEffective(r, f)))

Smaller(a, b) == IF a < b THEN a ELSE b

\* C4 as stated: a 200 response lists at most min(5, catalog size) restaurants
\* and, on POST, at most as many as there are catalog entries satisfying every
\* sub-filter present in the body.
C4_LengthWithinGivenFilters ==
    (Answered /\ resp.status = 200)
        => /\ Len(resp.restaurants) <= Smaller(RESULTS_LIMIT, Len(catalog))
           /\ req.method = "POST"
                 => Len(resp.restaurants) <= Len(PassingGiven(req.body.filters))

\* C4 as amended: a 200 response lists at most min(5, catalog size) restaurants
\* and, on POST, at most as many as there are catalog entries satisfying every
\* sub-filter whose value is truthy (an empty or zero one counts as absent).
C4_LengthWithinCapAndFilters ==
    (Answered /\ resp.status = 200)
        => /\ Len(resp.restaurants) <= Smaller(RESULTS_LIMIT, Len(catalog))
           /\ req.method = "POST"
                 => Len(resp.restaurants) <= Len(PassingEffective(req.body.filters))

\* A POST whose filters leave fewer entries than the cap, all of them listed,
\* in a catalog larger than the cap.
C4_Witness ==
    /\ AnsweredPost /\ resp.status = 200
    /\ Len(catalog) > RESULTS_LIMIT
    /\ Effective(req.body.filters.minRating)
    /\ Len(resp.restaurants) = Len(PassingEffective(req.body.filters))
    /\ Len(resp.restaurants) \in 1..(RESULTS_LIMIT - 1)

\* The catalog entries that were handed to the sort.
Pool == SelectSeq(catalog, LAMBDA r : \E i \in 1..Len(candidates) : candidates[i] = r.id)

\* The coordinate the distances of a response are measured from.
SearchLatitude == IF req.method = "GET" THEN resp.searchLocation.latitude ELSE req.body.latitude

SearchLongitude == IF req.method = "GET" THEN resp.searchLocation.longitude ELSE req.body.longitude

\* C5: the restaurants of a 200 response are in non-decreasing order of
\* distance to the search coordinate, and no candidate left out of the list
\* is strictly nearer to it than a candidate in the list.
C5_SortedNearest ==
    (Answered /\ resp.status = 200)
        => /\ \A i, j \in 1..Len(resp.restaurants) :
                 i < j => Lte(resp.restaurants[i].distance, resp.restaurants[j].distance)
           /\ \A k \in 1..Len(Pool) :
                 (\A i \in 1..Len(resp.restaurants) : resp.restaurants[i].id # Pool[k].id)
                     => \A i \in 1..Len(resp.restaurants) :
                           ~Lt(Distance(SearchLatitude, SearchLongitude, Pool[k]),
                               resp.restaurants[i].distance)

\* C6 as stated: on a POST answered 200 the candidates handed to the sort are
\* exactly the catalog entries satisfying every sub-filter present in filters,
\* every restaurant returned satisfies them, and there are no more candidates
\* than catalog entries.
C6_GivenFiltersApplied ==
    (AnsweredPost /\ resp.status = 200)
        => /\ candidates = PassingGiven(req.body.filters)
           /\ \A i \in 1..Len(resp.restaurants) :
                 SatisfiesGiven(Entry(resp.restaurants[i]), req.body.filters)
           /\ Len(candidates) <= Len(PassingGiven(NoFilters))

\* C6 as amended: on a POST answered 200 the candidates handed to the sort are
\* exactly the catalog entries satisfying every sub-filter whose value is
\* truthy (cuisine equal ignoring case, rating >= minRating, priceRange
\* equal); an absent filters object, an absent sub-filter and an empty or zero
\* one exclude nothing; every restaurant returned satisfies those sub-filters,
\* and filters never add candidates.
C6_EffectiveFiltersApplied ==
    (AnsweredPost /\ resp.status = 200)
        => /\ candidates = PassingEffective(req.body.filters)
           /\ \A i \in 1..Len(resp.restaurants) :
                 SatisfiesEffective(Entry(resp.restaurants[i]), req.body.filters)
           /\ Len(candidates) <= Len(PassingEffective(NoFilters))
           /\ PassingEffective(NoFilters) = Ids(catalog)

\* A cuisine in another case and a minimum rating that some entry meets
\* exactly leave some, not all, of the catalog.
C6_Witness ==
    /\ AnsweredPost /\ resp.status = 200
    /\ req.body.filters.cuisine = Str(<<"i", "t", "a", "l", "i", "a", "n">>)
    /\ req.body.filters.minRating = Num(45)
    /\ candidates # <<>>
    /\ Len(candidates) < Len(catalog)
    /\ \E i \in 1..Len(resp.restaurants) : resp.restaurants[i].rating = Num(45)

InRangeLatitude(v) == v.t = "number" /\ v.n >= 0 - 90 /\ v.n <= 90

InRangeLongitude(v) == v.t = "number" /\ v.n >= 0 - 180 /\ v.n <= 180

\* C7: a POST whose body lacks latitude or longitude is answered 400, and one
\* whose body carries an in-range latitude and an in-range longitude, zero
\* included, is answered 200 (stated for bodies whose cuisine filter, if any,
\* is a string).
C7_CoordinatesDecide ==
    (AnsweredPost /\ req.body.kind = "object")
        => /\ (req.body.latitude = Undefined \/ req.body.longitude = Undefined)
                 => resp.status = 400
           /\ ( /\ InRangeLatitude(req.body.latitude)
                /\ InRangeLongitude(req.body.longitude)
                /\ req.body.filters.cuisine.t \in {"undefined", "string"} )
                 => resp.status = 200

\* A query parameter that is there and does not read as a number.
NotANumber(p) == p.t = "string" /\ IsNaN(ParseFloat(p.s))

\* C8: a GET in which lat or lng is present but not a number is answered 400
\* with an error body, and nothing is ranked for it.
C8_NonNumericRejected ==
    (AnsweredGet /\ (NotANumber(req.query.lat) \/ NotANumber(req.query.lng)))
        => (resp.status = 400 /\ resp.error # "" /\ calls = 0)

\* C9: every request is answered 200, 400 or 500; a request whose handling
\* raised an exception (one was logged; the body was unparsable or null) is
\* answered 500 with the fixed body, which says nothing of the exception.
C9_ExceptionsAnswered500 ==
    Answered
        => /\ resp.status \in {200, 400, 500}
           /\ (logged # "" \/ req.body.kind \in {"unparsable", "null"})
                 => resp = JsonError("Internal server error", 500)
           /\ resp.status = 500
                 => /\ logged # ""
                    /\ resp.error = "Internal server error"
                    /\ resp.error # logged
                    /\ resp.restaurants = <<>>
                    /\ ~resp.searchLocation.present

\* A cuisine filter that is a number made the filter callback throw.
C9_Witness ==
    /\ AnsweredPost
    /\ req.body.kind = "object"
    /\ req.body.filters.cuisine = Num(5)
    /\ logged = "TypeError"
    /\ resp.status = 500

\* C10: no step of any request changes the shared catalog.
C10_CatalogUnchanged == [][catalog' = catalog]_vars

\* A filtered POST was answered with the entries in another order than the
\* catalog has them, and the catalog is still the data as loaded.
C10_Witness ==
    /\ AnsweredPost /\ resp.status = 200
    /\ Effective(req.body.filters.priceRange)
    /\ Len(resp.restaurants) >= 2
    /\ Ids(resp.restaurants) # SubSeq(candidates, 1, Len(resp.restaurants))
    /\ catalog = SubSeq(AllRestaurants, 1, Len(catalog))

\* Valid coordinates the distance of a point to itself is computed for.
SampleLatitudes == {0 - 90, 0 - 45, 0, 38, 90}

SampleLongitudes == {0 - 180, 0 - 122, 0, 74, 180}

\* C14: the distance from a valid coordinate to itself is 0, no distance of a
\* response is negative, and an entry that lies exactly at a valid search
\* coordinate is listed with distance 0.
C14_ZeroAtSelfNeverNegative ==
    /\ \A lat \in SampleLatitudes, lng \in SampleLongitudes :
          calculateDistance(Num(lat), Num(lng), Num(lat), Num(lng)) = Num(0)
    /\ (Answered /\ resp.status = 200)
          => \A i \in 1..Len(resp.restaurants) :
                /\ ~Lt(resp.restaurants[i].distance, Num(0))
                /\ ( /\ resp.restaurants[i].latitude = SearchLatitude
                     /\ resp.restaurants[i].longitude = SearchLongitude )
                      => resp.restaurants[i].distance = Num(0)

\* A search from explicit coordinates at which a catalog entry lies, and
\* which are not the same number twice.
C14_Witness ==
    /\ Answered /\ resp.status = 200
    /\ SearchLatitude = Num(38) /\ SearchLongitude = Num(0 - 122)
    /\ req.method = "GET" => GetBranch(req.query) = "explicit"
    /\ \E i \in 1..Len(resp.restaurants) :
          /\ resp.restaurants[i].latitude = SearchLatitude
          /\ resp.restaurants[i].longitude = SearchLongitude
          /\ resp.restaurants[i].distance = Num(0)
    /\ \E i \in 1..Len(resp.restaurants) : Lt(Num(0), resp.restaurants[i].distance)

\* The place of the entry with this id in the catalog.
CatalogIndex(id) == CHOOSE k \in 1..Len(catalog) : catalog[k].id = id

\* C15: two restaurants of a 200 response that are equally far from the
\* search coordinate are listed in the order the catalog has them, on GET and
\* on POST.
C15_TiesInCatalogOrder ==
    (Answered /\ resp.status = 200)
        => \A i, j \in 1..Len(resp.restaurants) :
              (i < j /\ resp.restaurants[i].distance = resp.restaurants[j].distance)
                  => CatalogIndex(resp.restaurants[i].id) < CatalogIndex(resp.restaurants[j].id)

\* A filtered POST lists two entries at the same positive distance, behind a
\* nearer entry that stands after them in the catalog.
C15_Witness ==
    /\ AnsweredPost /\ resp.status = 200
    /\ Effective(req.body.filters.minRating)
    /\ \E i, j \in 1..Len(resp.restaurants) :
          /\ i < j
          /\ resp.restaurants[i].distance = resp.restaurants[j].distance
          /\ Lt(Num(0), resp.restaurants[i].distance)
          /\ Lt(resp.restaurants[1].distance, resp.restaurants[i].distance)
          /\ CatalogIndex(resp.restaurants[1].id) > CatalogIndex(resp.restaurants[j].id)

(***************************************************************************)
(* Requests side by side.  Each invocation of GET or POST has its own      *)
(* locals; the catalog is the one module-level array.  An invocation runs  *)
(* without interruption except where it awaits: POST at request.json().    *)
(***************************************************************************)
\* Number of requests that can be in flight at once.
NumRequests == 2

IdleSlot ==
    [pc |-> "idle", req |-> NoRequest, resp |-> NoResponse, logged |-> "",
     overlapped |-> FALSE]

ConcQueries ==
    {NoQuery,
     [NoQuery EXCEPT !.address = Str(<<"n", "y">>)],
     [NoQuery EXCEPT !.lat = Str(<<"3", "8">>), !.lng = Str(<<"-", "1", "2", "2">>)],
     [NoQuery EXCEPT !.lat = Str(<<"a", "b", "c">>), !.lng = Str(<<"0">>)]}

ObjectBody(lat, lng, filters) ==
    [kind |-> "object", latitude |-> lat, longitude |-> lng, filters |-> filters]

ConcBodies ==
    {[NoBody EXCEPT !.kind = "unparsable"],
     ObjectBody(Num(0), Num(0 - 122), NoFilters),
     ObjectBody(Num(38), Num(0 - 122), NoFilters),
     ObjectBody(Num(91), Num(0),
                [NoFilters EXCEPT !.present = TRUE, !.minRating = Num(45)]),
     ObjectBody(Num(38), Num(181),
                [NoFilters EXCEPT !.present = TRUE, !.cuisine = Num(5)])}

InitConc ==
    /\ catalog \in {SubSeq(AllRestaurants, 1, n) : n \in 0..MaxCatalog}
    /\ server = [used |-> TRUE, loaded |-> catalog,
                 slots |-> [i \in 1..NumRequests |-> IdleSlot]]
    /\ form = Unused /\ page = Unused
    /\ pc = "idle"
    /\ req = NoRequest
    /\ resp = NoResponse
    /\ calls = 0
    /\ candidates = <<>>
    /\ logged = ""

\* Invocation i returns outcome o: every invocation that was waiting
\* meanwhile has had another one run in between.
ConcFinish(i, r, o) ==
    /\ catalog' = o.data
    /\ server' = [server EXCEPT !.slots =
          [j \in 1..NumRequests |->
              IF j = i
              THEN [pc |-> "responded", req |-> r, resp |-> o.resp,
                    logged |-> o.logged, overlapped |-> server.slots[i].overlapped]
              ELSE IF server.slots[j].pc = "await_json"
              THEN [server.slots[j] EXCEPT !.overlapped = TRUE]
              ELSE server.slots[j]]]
    /\ UNCHANGED <<requestVars, form, page>>

ConcGet(i, q) ==
    /\ server.slots[i].pc = "idle"
    /\ ConcFinish(i, [method |-> "GET", query |-> q, body |-> NoBody],
                  GETHandler(catalog, q))

ConcPostReceive(i, b) ==
    /\ server.slots[i].pc = "idle"
    /\ server' = [server EXCEPT !.slots[i] =
          [IdleSlot EXCEPT !.pc = "await_json",
                           !.req = [method |-> "POST", query |-> NoQuery, body |-> b]]]
    /\ UNCHANGED <<catalog, requestVars, form, page>>

ConcPostResume(i) ==
    /\ server.slots[i].pc = "await_json"
    /\ ConcFinish(i, server.slots[i].req, POSTHandler(catalog, server.slots[i].req.body))

ConcComplete(i) ==
    /\ server.slots[i].pc = "responded"
    /\ server' = [server EXCEPT !.slots[i] = IdleSlot]
    /\ UNCHANGED <<catalog, requestVars, form, page>>

NextConc ==
    \/ \E i \in 1..NumRequests, q \in ConcQueries : ConcGet(i, q)
    \/ \E i \in 1..NumRequests, b \in ConcBodies : ConcPostReceive(i, b)
    \/ \E i \in 1..NumRequests : ConcPostResume(i)
    \/ \E i \in 1..NumRequests : ConcComplete(i)

SpecConc == InitConc /\ [][NextConc]_vars

\* The outcome of request r handled alone against the catalog as loaded.
Alone(r) ==
    IF r.method = "GET" THEN GETHandler(server.loaded, r.query)
    ELSE POSTHandler(server.loaded, r.body)

\* C11: whatever other requests are handled before, between the steps of, or
\* alongside a request, its response is the one it would get if handled alone.
C11_ResponsesIndependent ==
    \A i \in 1..NumRequests :
        server.slots[i].pc = "responded"
            => /\ server.slots[i].resp = Alone(server.slots[i].req).resp
               /\ server.slots[i].logged = Alone(server.slots[i].req).logged

\* A filtered POST was answered 200 after another request, with another
\* origin, failed between its two steps.
C11_Witness ==
    \E i, j \in 1..NumRequests :
        /\ i # j
        /\ server.slots[i].pc = "responded"
        /\ server.slots[i].req.method = "POST"
        /\ server.slots[i].overlapped
        /\ server.slots[i].resp.status = 200
        /\ Len(server.slots[i].resp.restaurants) >= 2
        /\ server.slots[j].pc = "responded"
        /\ server.slots[j].resp.status = 500

(***************************************************************************)
(* The SearchForm component.  Its state is location and geolocationState;  *)
(* its props are isLoading, onSearch and the optional onLocationSearch.    *)
(* Every event ends with a render, which computes the disabled flags.      *)
(***************************************************************************)
\* Longest text typed into the input; most geolocation lookups in flight.
MaxInput == 3
MaxLookups == 2

InputChars == {" ", "a"}

InputTexts ==
    UNION {[1..n -> InputChars] : n \in 0..MaxInput}

GEOLOCATION_ERROR_MESSAGES ==
    [PERMISSION_DENIED |-> "Location access was denied.",
     POSITION_UNAVAILABLE |-> "Unable to determine your location.",
     TIMEOUT |-> "Location request timed out.",
     NOT_SUPPORTED |-> "Geolocation is not supported by your browser.",
     UNKNOWN |-> "An unexpected error occurred while getting your location."]

GeolocationIdle == [isLoading |-> FALSE, error |-> Null, errorType |-> Null]

\* A string that is only shown, never taken apart: kept as one piece.
Text(message) == Str(<<message>>)

GeolocationFailed(message, errorType) ==
    [isLoading |-> FALSE, error |-> Text(message), errorType |-> Text(errorType)]

getErrorTypeFromCode(code) ==
    CASE code = 1 -> "PERMISSION_DENIED"
      [] code = 2 -> "POSITION_UNAVAILABLE"
      [] code = 3 -> "TIMEOUT"
      [] OTHER -> "UNKNOWN"

\* isAnyLoading with the geolocation lookup left out.
isAnyLoadingSearchOnly(f) == f.isLoading

isAnyLoading(f) == f.isLoading \/ f.geolocationState.isLoading

\* The render that follows event e: the attributes of the input and the buttons.
Render(f, e) ==
    [f EXCEPT !.event = e,
              !.rendered =
                  [inputDisabled |-> isAnyLoading(f),
                   submitDisabled |-> isAnyLoading(f) \/ ~Truthy(Str(Trim(f.location))),
                   locateShown |-> f.hasLocationSearch,
                   locateDisabled |-> isAnyLoading(f),
                   dismissShown |-> Truthy(f.geolocationState.error)]]

\* handleSubmit handing over the input value as typed.
handleSubmitUntrimmed(f) ==
    IF Truthy(Str(Trim(f.location)))
    THEN [f EXCEPT !.geolocationState = GeolocationIdle,
                   !.onSearchCalls = Append(@, Str(f.location))]
    ELSE f

handleSubmit(f) ==
    IF Truthy(Str(Trim(f.location)))
    THEN [f EXCEPT !.geolocationState = GeolocationIdle,
                   !.onSearchCalls = Append(@, Str(Trim(f.location)))]
    ELSE f

handleUseMyLocation(f) ==
    IF ~f.geolocationSupported
    THEN [f EXCEPT !.geolocationState =
             GeolocationFailed(GEOLOCATION_ERROR_MESSAGES.NOT_SUPPORTED, "NOT_SUPPORTED")]
    ELSE IF ~f.hasLocationSearch
    THEN [f EXCEPT !.geolocationState =
             GeolocationFailed("Location search is not available.", "UNKNOWN")]
    ELSE [f EXCEPT !.geolocationState = [GeolocationIdle EXCEPT !.isLoading = TRUE],
                   !.lookups = @ + 1]

clearError(f) == [f EXCEPT !.geolocationState = GeolocationIdle]

Position == [latitude |-> Num(38), longitude |-> Num(0 - 122)]

Mounted(hasLocationSearch, geolocationSupported, isLoading) ==
    Render([used |-> TRUE,
            location |-> <<>>,
            geolocationState |-> GeolocationIdle,
            isLoading |-> isLoading,
            hasLocationSearch |-> hasLocationSearch,
            geolocationSupported |-> geolocationSupported,
            lookups |-> 0,
            onSearchCalls |-> <<>>,
            onLocationSearchCalls |-> <<>>,
            event |-> "mount",
            rendered |-> <<>>], "mount")

InitForm ==
    /\ catalog = <<>>
    /\ server = Unused /\ page = Unused
    /\ form \in {Mounted(h, g, l) : h \in BOOLEAN, g \in BOOLEAN, l \in BOOLEAN}
    /\ pc = "idle"
    /\ req = NoRequest
    /\ resp = NoResponse
    /\ calls = 0
    /\ candidates = <<>>
    /\ logged = ""

\* An event handler starts: the calls it makes of onSearch and of
\* onLocationSearch are recorded from here.
Handling(f) == [f EXCEPT !.onSearchCalls = <<>>, !.onLocationSearchCalls = <<>>]

FormStep(f) ==
    /\ form' = f
    /\ UNCHANGED <<catalog, requestVars, server, page>>

\* The parent renders the form with another isLoading.
SetIsLoading(l) ==
    /\ l # form.isLoading
    /\ FormStep(Render([Handling(form) EXCEPT !.isLoading = l], "props"))

\* onChange of the input.
ChangeLocation(text) ==
    /\ ~form.rendered.inputDisabled
    /\ FormStep(Render([Handling(form) EXCEPT !.location = text], "change"))

\* A click on the submit button.
ClickSubmit ==
    /\ ~form.rendered.submitDisabled
    /\ FormStep(Render(handleSubmit(Handling(form)), "click"))

\* Enter in the input: the browser submits through the default button.
PressEnter ==
    /\ ~form.rendered.inputDisabled
    /\ ~form.rendered.submitDisabled
    /\ FormStep(Render(handleSubmit(Handling(form)), "enter"))

\* A submit event dispatched on the form by a script.
DispatchSubmit ==
    /\ FormStep(Render(handleSubmit(Handling(form)), "submit"))

ClickUseMyLocation ==
    /\ form.rendered.locateShown
    /\ ~form.rendered.locateDisabled
    /\ form.lookups < MaxLookups
    /\ FormStep(Render(handleUseMyLocation(Handling(form)), "locate"))

\* The success callback of getCurrentPosition.
PositionFound ==
    /\ form.lookups > 0
    /\ FormStep(Render([Handling(form) EXCEPT !.geolocationState = GeolocationIdle,
                                    !.location = <<>>,
                                    !.onLocationSearchCalls = <<Position>>,
                                    !.lookups = @ - 1], "position"))

\* The error callback of getCurrentPosition.
PositionError(code) ==
    /\ form.lookups > 0
    /\ FormStep(Render([Handling(form) EXCEPT !.geolocationState =
                           GeolocationFailed(GEOLOCATION_ERROR_MESSAGES[getErrorTypeFromCode(code)],
                                             getErrorTypeFromCode(code)),
                                    !.lookups = @ - 1], "position_error"))

DismissError ==
    /\ form.rendered.dismissShown
    /\ FormStep(Render(clearError(Handling(form)), "dismiss"))

NextForm ==
    \/ \E l \in BOOLEAN : SetIsLoading(l)
    \/ \E text \in InputTexts : ChangeLocation(text)
    \/ ClickSubmit
    \/ PressEnter
    \/ DispatchSubmit
    \/ ClickUseMyLocation
    \/ PositionFound
    \/ \E code \in 0..3 : PositionError(code)
    \/ DismissError

SpecForm == InitForm /\ [][NextForm]_vars

\* The positions of the input's characters that are not whitespace.
InkPositions(text) == {i \in 1..Len(text) : text[i] # " "}

HasContent(text) == InkPositions(text) # {}

Least(S) == CHOOSE i \in S : \A k \in S : i <= k

Greatest(S) == CHOOSE i \in S : \A k \in S : k <= i

\* The text from its first to its last character that is not whitespace.
TrimmedValue(text) ==
    SubSeq(text, Least(InkPositions(text)), Greatest(InkPositions(text)))

SubmitEvents == {"click", "enter", "submit"}

\* C12: a submit calls onSearch exactly once, with the input value trimmed of
\* leading and trailing whitespace, when the input has non-whitespace content,
\* and does not call it when the input is empty or whitespace only; nothing
\* but a submit calls onSearch.  (onSearchCalls holds the calls made by the
\* event just handled.)
C12_SubmitCallsOnSearchOnce ==
    [][ /\ form.used
        /\ IF form'.event \in SubmitEvents /\ HasContent(form.location)
           THEN form'.onSearchCalls = <<Str(TrimmedValue(form.location))>>
           ELSE form'.onSearchCalls = <<>> ]_vars

\* A click on the button with padded text in the input has called onSearch
\* once, with the text between the padding.
C12_Witness ==
    /\ form.used
    /\ form.event = "click"
    /\ form.location = <<" ", "a", " ">>
    /\ form.onSearchCalls = <<Str(<<"a">>)>>

\* C13: in every state the submit button is disabled exactly when a search or
\* a geolocation lookup is loading or the input is empty after trimming, and
\* the text input is disabled exactly when a search or a geolocation lookup is
\* loading.
C13_DisabledExactlyWhen ==
    form.used =>
        /\ form.rendered.submitDisabled
              <=> (form.isLoading \/ form.geolocationState.isLoading
                      \/ ~HasContent(form.location))
        /\ form.rendered.inputDisabled
              <=> (form.isLoading \/ form.geolocationState.isLoading)

\* A geolocation lookup is loading, no search is, and the input holds text:
\* both controls are disabled.
C13_Witness ==
    /\ form.used
    /\ form.geolocationState.isLoading
    /\ ~form.isLoading
    /\ HasContent(form.location)
    /\ form.rendered.submitDisabled
    /\ form.rendered.inputDisabled

(***************************************************************************)
(* The Home page.  It renders SearchForm with onSearch = handleSearch and  *)
(* isLoading = loading, and without onLocationSearch.  handleSearch is     *)
(* async: it suspends at fetch(...) and at response.json().                *)
(***************************************************************************)
RECURSIVE encodeURIComponent(_)
encodeURIComponent(s) ==
    IF s = <<>> THEN <<>>
    ELSE (IF Head(s) = " " THEN <<"%", "2", "0">> ELSE <<Head(s)>>)
            \o encodeURIComponent(Tail(s))

\* URLSearchParams decoding of a query value: %20 and + are a space.
RECURSIVE SearchParamValue(_)
SearchParamValue(s) ==
    IF s = <<>> THEN <<>>
    ELSE IF Len(s) >= 3 /\ SubSeq(s, 1, 3) = <<"%", "2", "0">>
    THEN <<" ">> \o SearchParamValue(SubSeq(s, 4, Len(s)))
    ELSE IF Head(s) = "+" THEN <<" ">> \o SearchParamValue(Tail(s))
    ELSE <<Head(s)>> \o SearchParamValue(Tail(s))

\* The request of fetch(`/api/restaurants?address=${...}`) as the route reads it.
AddressQuery(location) ==
    [NoQuery EXCEPT !.address = Str(SearchParamValue(encodeURIComponent(location)))]

\* What fetch resolved with: ok, whether the body parses as JSON, and the body.
FetchResponse(r) ==
    [ok |-> r.status >= 200 /\ r.status <= 299,
     json |-> TRUE,
     data |-> [error |-> IF r.error = "" THEN Undefined ELSE Text(r.error),
               restaurants |-> r.restaurants]]

\* A non-OK answer with a JSON body that has no error field.
BareFailure == [ok |-> FALSE, json |-> TRUE,
                data |-> [error |-> Undefined, restaurants |-> <<>>]]

\* A non-OK answer whose body is not JSON, as a gateway's error page.
ErrorPage == [ok |-> FALSE, json |-> FALSE,
              data |-> [error |-> Undefined, restaurants |-> <<>>]]

NoFetch == [kind |-> "none"]

Thrown(message) == [isError |-> TRUE, message |-> message]

\* handleSearch up to its first await.
handleSearchStart(p, location) ==
    [p EXCEPT !.loading = TRUE,
              !.error = Null,
              !.hasSearched = TRUE,
              !.searches = Append(@, [pc |-> "fetch", location |-> location,
                                      response |-> NoFetch])]

handleSearchCatch(p, err) ==
    [p EXCEPT !.error = IF err.isError THEN Text(err.message)
                        ELSE Text("An error occurred"),
              !.restaurants = <<>>]

\* A handleSearch that resets loading nowhere.
handleSearchFinallyMissing(p) == p

handleSearchFinally(p) == [p EXCEPT !.loading = FALSE]

\* handleSearch after response.json() resolved with data.
handleSearchData(p, response) ==
    IF ~response.ok
    THEN handleSearchCatch(p,
             Thrown(IF Truthy(response.data.error) THEN response.data.error.s[1]
                    ELSE "Failed to fetch restaurants"))
    ELSE [p EXCEPT !.restaurants = response.data.restaurants]

Remove(seq, i) == SubSeq(seq, 1, i - 1) \o SubSeq(seq, i + 1, Len(seq))

\* Invocation i of handleSearch returns after fetch settled as result.
Returned(p, i, result) ==
    [p EXCEPT !.searches = Remove(@, i), !.settled = result]

InitPage ==
    /\ catalog \in {SubSeq(AllRestaurants, 1, n) : n \in 0..MaxCatalog}
    /\ server = Unused
    /\ form = Mounted(FALSE, TRUE, FALSE)
    /\ page = [used |-> TRUE, restaurants |-> <<>>, loading |-> FALSE,
               error |-> Null, hasSearched |-> FALSE, searches |-> <<>>,
               settled |-> NoFetch]
    /\ pc = "idle"
    /\ req = NoRequest
    /\ resp = NoResponse
    /\ calls = 0
    /\ candidates = <<>>
    /\ logged = ""

\* The page's state becomes p and the page renders, the form with it.
PageStep(f, p, e) ==
    /\ page' = p
    /\ form' = Render([f EXCEPT !.isLoading = p.loading], e)
    /\ UNCHANGED <<catalog, requestVars, server>>

PageChangeLocation(text) ==
    /\ ~form.rendered.inputDisabled
    /\ PageStep([Handling(form) EXCEPT !.location = text], page, "change")

\* The form's onSubmit with onSearch = handleSearch.
PageSubmit(e) ==
    LET f == handleSubmit(Handling(form))
    IN  PageStep(f,
                 IF f.onSearchCalls # <<>>
                 THEN handleSearchStart(page, f.onSearchCalls[1].s)
                 ELSE page,
                 e)

PageClickSubmit ==
    /\ ~form.rendered.submitDisabled
    /\ PageSubmit("click")

PagePressEnter ==
    /\ ~form.rendered.inputDisabled
    /\ ~form.rendered.submitDisabled
    /\ PageSubmit("enter")

\* fetch resolves with a response: the route's answer, the answer of the
\* route's catch block, or an answer produced on the way.
FetchResolves(i) ==
    /\ page.searches[i].pc = "fetch"
    /\ \E response \in
           {FetchResponse(GETHandler(catalog, AddressQuery(page.searches[i].location)).resp),
            FetchResponse(InternalError("")),
            BareFailure, ErrorPage} :
          PageStep(Handling(form),
                   [page EXCEPT !.searches[i].pc = "json",
                                !.searches[i].response = response],
                   "props")

\* fetch rejects (no connection): catch, then finally.
FetchRejects(i) ==
    /\ page.searches[i].pc = "fetch"
    /\ PageStep(Handling(form),
                Returned(handleSearchFinally(
                             handleSearchCatch(page, Thrown("Failed to fetch"))),
                         i, [kind |-> "rejected"]),
                "props")

\* response.json() settles: it rejects when the body is not JSON.
JsonSettles(i) ==
    /\ page.searches[i].pc = "json"
    /\ LET response == page.searches[i].response
           p == IF response.json THEN handleSearchData(page, response)
                ELSE handleSearchCatch(page, Thrown("Unexpected token"))
       IN  PageStep(Handling(form),
                    Returned(handleSearchFinally(p), i,
                             [kind |-> "response", ok |-> response.ok,
                              json |-> response.json]),
                    "props")

NextPage ==
    \/ \E text \in InputTexts : PageChangeLocation(text)
    \/ PageClickSubmit
    \/ PagePressEnter
    \/ \E i \in 1..Len(page.searches) : FetchResolves(i)
    \/ \E i \in 1..Len(page.searches) : FetchRejects(i)
    \/ \E i \in 1..Len(page.searches) : JsonSettles(i)

SpecPage == InitPage /\ [][NextPage]_vars

\* The promises of fetch and of response.json() settle.
PageFairness ==
    /\ WF_vars(\E i \in 1..Len(page.searches) : FetchRejects(i) \/ FetchResolves(i))
    /\ WF_vars(\E i \in 1..Len(page.searches) : JsonSettles(i))

SpecPageFair == SpecPage /\ PageFairness

SearchInFlight == page.used /\ page.searches # <<>>

SearchOver == page.used /\ page.searches = <<>>

\* The last search failed: fetch rejected, or the answer was not OK or not JSON.
SearchFailed ==
    \/ page.settled.kind = "rejected"
    \/ page.settled.kind = "response" /\ (~page.settled.ok \/ ~page.settled.json)

SearchSucceeded ==
    page.settled.kind = "response" /\ page.settled.ok /\ page.settled.json

C16_SearchStates ==
    page.used =>
        /\ SearchInFlight => page.loading
        /\ (SearchOver /\ SearchFailed) =>
              (~page.loading /\ page.restaurants = <<>> /\ page.error # Null)
        /\ (SearchOver /\ SearchSucceeded) =>
              (~page.loading /\ page.error = Null)

\* C16: loading is true while a search started by handleSearch is in flight;
\* every such search ends, however its fetch settles, and leaves loading false;
\* after a failed search restaurants is empty and error is non-null, after a
\* successful one error is null.
C16_SearchEndsLoadingFalse ==
    /\ []C16_SearchStates
    /\ SearchInFlight ~> (SearchOver /\ ~page.loading)

\* A search whose fetch was answered by the route's catch block is over:
\* loading is false, the list is empty and the answer's error is shown.
C16_Witness ==
    /\ SearchOver
    /\ page.hasSearched
    /\ page.settled = [kind |-> "response", ok |-> FALSE, json |-> TRUE]
    /\ ~page.loading
    /\ page.restaurants = <<>>
    /\ page.error = Text("Internal server error")
    /\ Len(catalog) > 0

====
